---------------------------- MODULE Spec2Model ----------------------------
(***************************************************************************)
(* State-machine model of github_monitor.py: the Database class (three     *)
(* SQLite tables), the Notifier (metadata enrichment with cache, message   *)
(* formatting, fan-out to the dingtalk and feishu bots) and the monitor()  *)
(* poll loop with its error handlers.                                      *)
(*                                                                         *)
(* Spec    : the monitor() loop, one action per statement group.           *)
(* SpecDb  : the Database methods applied in any order to any arguments.   *)
(***************************************************************************)
EXTENDS Integers, Sequences, FiniteSets, TLC

\* ------------------------------------------------------------------ bounds
\* Longest feed page returned by one fetch.
MaxPage == 2
\* Bots configured per notification type.
MaxBots == 1
\* datetime.now() returns one of the instants 1..MaxTime.
MaxTime == 2
\* The per-event count of send_all calls saturates at this value.
SendCap == 2
\* config["github"]["poll_interval"] is one of 1..MaxPoll seconds.
MaxPoll == 90
\* Most fields in the query string of a configured webhook URL.
MaxQuery == 2

\* ------------------------------------------------------------- Python values
\* Python's None.
None == "<None>"

\* Truth value of a str-or-None value in an `if` (None and "" are falsy).
Truthy(v) == v # None /\ v # ""

\* dict.get(key, default) on a JSON object modelled as a function on its keys.
Get(obj, key, default) == IF key \in DOMAIN obj THEN obj[key] ELSE default

\* ------------------------------------------------------------ exceptions
\* Exception classes that can occur in a cycle.  requests' exceptions derive
\* from RequestException; everything here except KeyboardInterrupt derives
\* from Exception.
RequestExceptionClasses == {"requests.ConnectionError", "requests.Timeout"}

ExceptionClasses ==
    RequestExceptionClasses \cup
    {"ValueError", "KeyError", "TypeError", "AttributeError",
     "sqlite3.OperationalError", "sqlite3.IntegrityError"}

\* Variant: only the RequestException clause exists.
monitor_except_network_only(e) ==
    IF e \in RequestExceptionClasses THEN "network" ELSE "propagate"

\* Variant: a storage error is not caught by the loop.
monitor_except_storage_fatal(e) ==
    IF e \in RequestExceptionClasses THEN "network"
    ELSE IF e \in ExceptionClasses \ {"sqlite3.OperationalError"} THEN "other"
    ELSE "propagate"

\* The two except clauses inside monitor()'s while loop: the name of the
\* handler that catches an exception of class e, or "propagate".
monitor_except(e) ==
    IF e \in RequestExceptionClasses THEN "network"
    ELSE IF e \in ExceptionClasses THEN "other"
    ELSE "propagate"

\* --------------------------------------------------------------- Database
\* Table pushed_events: a set of rows [event_id, pushed_at].
\* Table repo_cache   : rows [name, description, language, stars].
\* Table user_cache   : rows [login, avatar_url].
\* (The last_updated column of the two cache tables is written and never
\* read; the rows are kept without it.)

\* INSERT INTO pushed_events under the PRIMARY KEY constraint on event_id.
insert_pushed_events(rows, event_id, t) ==
    IF \E r \in rows : r.event_id = event_id
    THEN [rows |-> rows, raised |-> "sqlite3.IntegrityError"]
    ELSE [rows |-> rows \cup {[event_id |-> event_id, pushed_at |-> t]},
          raised |-> None]

\* Variant: the query never finds a row.
is_pushed_never(rows, event_id, fault) ==
    IF fault
    THEN [ret |-> FALSE, raised |-> "sqlite3.OperationalError"]
    ELSE [ret |-> FALSE, raised |-> None]

\* Database.is_pushed; fault: the storage engine fails on this statement.
is_pushed(rows, event_id, fault) ==
    IF fault
    THEN [ret |-> FALSE, raised |-> "sqlite3.OperationalError"]
    ELSE [ret |-> \E r \in rows : r.event_id = event_id, raised |-> None]

\* Variant: the INSERT is not wrapped in try/except IntegrityError.
mark_pushed_unguarded(rows, event_id, t, fault) ==
    IF fault
    THEN [rows |-> rows, raised |-> "sqlite3.OperationalError"]
    ELSE insert_pushed_events(rows, event_id, t)

\* Database.mark_pushed: only IntegrityError is swallowed.
mark_pushed(rows, event_id, t, fault) ==
    IF fault
    THEN [rows |-> rows, raised |-> "sqlite3.OperationalError"]
    ELSE LET ins == insert_pushed_events(rows, event_id, t)
         IN  IF ins.raised = "sqlite3.IntegrityError"
             THEN [rows |-> rows, raised |-> None]
             ELSE ins

\* Database.get_repo_info: cursor.fetchone(), written as a sequence: << >>
\* for None, else the one (description, language, stars) tuple.
get_repo_info(cache, repo_name) ==
    IF \E r \in cache : r.name = repo_name
    THEN LET r == CHOOSE r \in cache : r.name = repo_name
         IN  << <<r.description, r.language, r.stars>> >>
    ELSE << >>

\* Database.cache_repo_info (INSERT OR REPLACE) for a JSON object info.
cache_repo_info(cache, repo_name, info, t) ==
    {r \in cache : r.name # repo_name} \cup
    {[name |-> repo_name,
      description |-> Get(info, "description", None),
      language |-> Get(info, "language", None),
      stars |-> Get(info, "stargazers_count", 0)]}

\* Database.get_user_avatar: the avatar_url column or None.
get_user_avatar(cache, login) ==
    IF \E r \in cache : r.login = login
    THEN (CHOOSE r \in cache : r.login = login).avatar_url
    ELSE None

\* Database.cache_user_avatar (INSERT OR REPLACE).
cache_user_avatar(cache, login, avatar_url, t) ==
    {r \in cache : r.login # login} \cup
    {[login |-> login, avatar_url |-> avatar_url]}

\* The values datetime.now() can return.
Times == 1..MaxTime


\* ------------------------------------------------------- remote metadata
\* A reply of the remote API to one GET: exc is the exception requests.get
\* raises (None when a response arrives), status the HTTP status, shape what
\* response.json() yields ("object", "array", or "text" when the body is not
\* JSON) and body the JSON object's members.
NoBody == [k \in {} |-> None]

Reply(exc, status, shape, body) ==
    [exc |-> exc, status |-> status, shape |-> shape, body |-> body]

FailReplies ==
    {Reply("requests.Timeout", 0, "text", NoBody),
     Reply(None, 404, "object", NoBody),
     Reply(None, 200, "text", NoBody)}

RepoNames == {"o/r1"}

RepoReplies ==
    FailReplies \cup
    {Reply(None, 200, "object",
           [description |-> "d1", language |-> "Python", stargazers_count |-> 7]),
     Reply(None, 200, "object", NoBody)}

Logins == {"u1"}

AvatarReplies ==
    FailReplies \cup
    {Reply(None, 200, "object", [avatar_url |-> "https://a/u1.png"]),
     Reply(None, 200, "object", [avatar_url |-> None]),
     Reply(None, 200, "object", NoBody)}

\* The dict returned at the end of _get_repo_details (its description is the
\* source's fixed "no description yet" text, transliterated).
DefaultRepoDetails ==
    [description |-> "zan wu miao shu", language |-> "", stargazers_count |-> 0]

PlaceholderAvatar == "https://github.com/identicons/app.png"

\* The exception raised inside the try block of an enrichment call that got
\* `reply`, or None: requests.get raising, response.json() on a non-JSON
\* body, or .get on a JSON array.
enrich_raises(reply) ==
    IF reply.exc # None THEN reply.exc
    ELSE IF reply.status # 200 THEN None
    ELSE IF reply.shape = "text" THEN "ValueError"
    ELSE IF reply.shape = "array" THEN "AttributeError"
    ELSE None

\* Variant: the reply is parsed whatever its status.
repo_lookup_no_status_check(cache, repo_name, reply, t) ==
    IF reply.exc = None /\ enrich_raises(reply) = None
    THEN [ret |-> [description |-> Get(reply.body, "description", None),
                   language |-> Get(reply.body, "language", None),
                   stargazers_count |-> Get(reply.body, "stargazers_count", 0)],
          cache |-> cache_repo_info(cache, repo_name, reply.body, t),
          requested |-> TRUE, wrote |-> TRUE]
    ELSE [ret |-> DefaultRepoDetails, cache |-> cache,
          requested |-> TRUE, wrote |-> FALSE]

\* The remote lookup of _get_repo_details (its try block and the default
\* after it).  Result: the returned dict, the repo_cache table afterwards,
\* whether an HTTP request was issued, whether the cache was written.
repo_lookup(cache, repo_name, reply, t) ==
    IF reply.exc = None /\ reply.status = 200 /\ enrich_raises(reply) = None
    THEN [ret |-> [description |-> Get(reply.body, "description", None),
                   language |-> Get(reply.body, "language", None),
                   stargazers_count |-> Get(reply.body, "stargazers_count", 0)],
          cache |-> cache_repo_info(cache, repo_name, reply.body, t),
          requested |-> TRUE, wrote |-> TRUE]
    ELSE [ret |-> DefaultRepoDetails, cache |-> cache,
          requested |-> TRUE, wrote |-> FALSE]

\* Variant: the cache is not consulted.
_get_repo_details_refetch(cache, repo_name, reply, t) ==
    repo_lookup(cache, repo_name, reply, t)

\* Notifier._get_repo_details: the cached row if there is one, else the
\* remote lookup.
_get_repo_details(cache, repo_name, reply, t) ==
    LET cached == get_repo_info(cache, repo_name)
    IN  IF cached # << >>
        THEN [ret |-> [description |-> cached[1][1],
                       language |-> cached[1][2],
                       stargazers_count |-> cached[1][3]],
              cache |-> cache, requested |-> FALSE, wrote |-> FALSE]
        ELSE repo_lookup(cache, repo_name, reply, t)

\* Variant: the placeholder returned after a failed lookup is cached.
_get_user_avatar_caches_placeholder(cache, login, reply, t) ==
    LET cached == get_user_avatar(cache, login)
    IN  IF Truthy(cached)
        THEN [ret |-> cached, cache |-> cache,
              requested |-> FALSE, wrote |-> FALSE]
        ELSE IF reply.exc = None /\ reply.status = 200
                /\ enrich_raises(reply) = None
        THEN LET avatar_url == Get(reply.body, "avatar_url", "")
             IN  [ret |-> avatar_url,
                  cache |-> cache_user_avatar(cache, login, avatar_url, t),
                  requested |-> TRUE, wrote |-> TRUE]
        ELSE [ret |-> PlaceholderAvatar,
              cache |-> cache_user_avatar(cache, login, PlaceholderAvatar, t),
              requested |-> TRUE, wrote |-> FALSE]

\* Notifier._get_user_avatar, same result shape; ret is a str or None.
_get_user_avatar(cache, login, reply, t) ==
    LET cached == get_user_avatar(cache, login)
    IN  IF Truthy(cached)
        THEN [ret |-> cached, cache |-> cache,
              requested |-> FALSE, wrote |-> FALSE]
        ELSE IF reply.exc = None /\ reply.status = 200
                /\ enrich_raises(reply) = None
        THEN LET avatar_url == Get(reply.body, "avatar_url", "")
             IN  [ret |-> avatar_url,
                  cache |-> cache_user_avatar(cache, login, avatar_url, t),
                  requested |-> TRUE, wrote |-> TRUE]
        ELSE [ret |-> PlaceholderAvatar, cache |-> cache,
              requested |-> TRUE, wrote |-> FALSE]


\* ------------------------------------------------------------ feed events
\* A feed event is a JSON object: a function on the keys it has.  actor and
\* repo stand for event["actor"]["login"] and event["repo"]["name"], release
\* for event["payload"]["release"].
WireTime == "2024-05-01T10:00:00Z"

EvWatch ==
    [id |-> "e1", type |-> "WatchEvent", actor |-> "u1", repo |-> "o/r1",
     created_at |-> WireTime]

\* An event without created_at.
EvNoTime ==
    [id |-> "e2", type |-> "ReleaseEvent", actor |-> "u1", repo |-> "o/r1",
     release |-> [tag_name |-> "v1"]]

\* An event without an identifier.
EvNoId ==
    [type |-> "PushEvent", actor |-> "u1", repo |-> "o/r1",
     created_at |-> WireTime]

EventPool == {EvWatch, EvNoTime, EvNoId}

EventIds == {"e1", "e2"}

\* The feed pages a fetch can return: lists of at most MaxPage different
\* events.
Pages ==
    UNION {{p \in [1..n -> EventPool] :
               \A i, j \in 1..n : p[i] = p[j] => i = j} : n \in 0..MaxPage}

\* datetime.strptime(s, "%Y-%m-%dT%H:%M:%SZ").strftime("%Y-%m-%d %H:%M");
\* None stands for the ValueError on a string of another format.
strptime_strftime(s) ==
    IF s = WireTime THEN "2024-05-01 10:00" ELSE None

\* The actions table of format_message with actions.get(event_type, event_type).
action_label(event_type) ==
    CASE event_type = "WatchEvent"       -> "Starred"
      [] event_type = "ForkEvent"        -> "Forked"
      [] event_type = "PullRequestEvent" -> "PR"
      [] event_type = "IssuesEvent"      -> "Issue"
      [] event_type = "PushEvent"        -> "Push"
      [] event_type = "CreateEvent"      -> "Create"
      [] event_type = "ReleaseEvent"     -> "Release"
      [] OTHER                           -> event_type

\* Variant: the fallback document leaves the error text out.
fallback_message_no_error(error) ==
    [kind |-> "fallback", error |-> ""]

\* The fallback document of format_message's except clause.
fallback_message(error) ==
    [kind |-> "fallback", error |-> error]

\* Notifier.format_message.  Result: the message, both cache tables
\* afterwards, and the enrichment calls made (at most one each, as
\* one-element sequences of [key, requested, wrote, ret]).
format_message(event, ucache, rcache, avatarReply, repoReply, t) ==
    LET none == [msg |-> fallback_message("KeyError"), user_cache |-> ucache,
                 repo_cache |-> rcache,
                 avatar_call |-> << >>, repo_call |-> << >>]
    IN
    IF ~ {"type", "actor"} \subseteq DOMAIN event THEN none
    ELSE
    LET av == _get_user_avatar(ucache, event.actor, avatarReply, t)
        avcall == << [key |-> event.actor, requested |-> av.requested,
                      wrote |-> av.wrote, ret |-> av.ret] >>
        afterAv == [none EXCEPT !.user_cache = av.cache,
                                !.avatar_call = avcall]
    IN
    \* None + "?size=20"
    IF av.ret = None
    THEN [afterAv EXCEPT !.msg = fallback_message("TypeError")]
    ELSE IF ~ {"repo", "created_at"} \subseteq DOMAIN event
    THEN afterAv
    ELSE IF strptime_strftime(event.created_at) = None
    THEN [afterAv EXCEPT !.msg = fallback_message("ValueError")]
    ELSE
    LET rd == _get_repo_details(rcache, event.repo, repoReply, t)
        rdcall == << [key |-> event.repo, requested |-> rd.requested,
                      wrote |-> rd.wrote, ret |-> rd.ret] >>
        afterRd == [afterAv EXCEPT !.repo_cache = rd.cache,
                                   !.repo_call = rdcall]
    IN
    IF event.type = "ReleaseEvent" /\ "release" \notin DOMAIN event
    THEN afterRd
    ELSE
    [afterRd EXCEPT !.msg =
        [kind |-> "normal",
         avatar |-> av.ret,
         actor |-> event.actor,
         time |-> strptime_strftime(event.created_at),
         action |-> action_label(event.type),
         repo |-> event.repo,
         description |-> rd.ret.description,
         release |-> IF event.type = "ReleaseEvent"
                     THEN <<Get(event.release, "tag_name", ""),
                            Get(event.release, "name", "")>>
                     ELSE << >>,
         language |-> rd.ret.language,
         stars |-> rd.ret.stargazers_count]]


\* ---------------------------------------------------------------- channels
\* config["notifications"]: per notification type an enable flag and a list
\* of bots.
Bots(kind, prefix) ==
    [i \in 1..MaxBots |-> [kind |-> kind, name |-> <<prefix, i>>]]

Configs ==
    {[dingtalk |-> [enable |-> de, bots |-> Bots("dingtalk", "d")],
      feishu   |-> [enable |-> fe, bots |-> Bots("feishu", "f")]] :
        de \in BOOLEAN, fe \in BOOLEAN}

\* What one webhook POST can do: answer 200, answer another status, or raise
\* (connection error, timeout); and, last, answer another status with a
\* KeyboardInterrupt arriving while that reply is handled (in _send_feishu:
\* inside response.json() of lines 324-328).
Outcomes == {"ok", "http_error", "exception", "interrupt_in_error_path"}

\* Variant: the POST is outside the try block.
_send_dingtalk_unguarded(message, bot_config, outcome) ==
    [raised |-> CASE outcome = "exception" -> "requests.ConnectionError"
                  [] outcome = "interrupt_in_error_path" -> "KeyboardInterrupt"
                  [] OTHER -> None,
     swallowed |-> None,
     log |-> IF outcome = "ok" THEN "info" ELSE "error"]

\* Notifier._send_dingtalk: the whole body is inside try/except Exception,
\* which does not catch a KeyboardInterrupt.
_send_dingtalk(message, bot_config, outcome) ==
    [raised |-> IF outcome = "interrupt_in_error_path"
                THEN "KeyboardInterrupt" ELSE None,
     swallowed |-> None,
     log |-> IF outcome = "ok" THEN "info" ELSE "error"]

\* Notifier._send_feishu: likewise, but on a status other than 200 it calls
\* response.json() under a bare `except:`, which catches whatever is raised
\* there, a KeyboardInterrupt included, and goes on to log the error.
_send_feishu(message, bot_config, outcome) ==
    [raised |-> None,
     swallowed |-> IF outcome = "interrupt_in_error_path"
                   THEN "KeyboardInterrupt" ELSE None,
     log |-> IF outcome = "ok" THEN "info" ELSE "error"]

\* Variant: the enable flags are not looked at.
send_all_ignores_enable(cfg) ==
    cfg.dingtalk.bots \o cfg.feishu.bots

\* Variant: the feishu loop is missing.
send_all_dingtalk_only(cfg) ==
    IF cfg.dingtalk.enable THEN cfg.dingtalk.bots ELSE << >>

\* Notifier.send_all: the bots it calls, in call order.
send_all(cfg) ==
    (IF cfg.dingtalk.enable THEN cfg.dingtalk.bots ELSE << >>) \o
    (IF cfg.feishu.enable THEN cfg.feishu.bots ELSE << >>)

\* The call send_all makes for one bot.
send_bot(message, bot_config, outcome) ==
    IF bot_config.kind = "dingtalk"
    THEN _send_dingtalk(message, bot_config, outcome)
    ELSE _send_feishu(message, bot_config, outcome)


\* ------------------------------------------------------------------- state
VARIABLES
    config,          \* the loaded configuration (read-only)
    pushed_events,   \* table pushed_events
    repo_cache,      \* table repo_cache
    user_cache,      \* table user_cache
    conn_open,       \* the sqlite connection is open
    pc,              \* where monitor() stands
    events,          \* monitor's local `events`
    idx,             \* position of the for loop in events
    new_events,      \* monitor's local `new_events`
    msg,             \* monitor's local `msg`
    bot_idx,         \* position of send_all in its list of bots
    exc,             \* the exception an except clause of the loop holds
    exit_cause,      \* the exception that ended monitor()
    summary,         \* the count in the cycle summary just logged
    send_all_calls,  \* per event id, how often send_all was called for it
    attempted_now,   \* bots to which a send was made for the current event
    failed_now,      \* bots whose send failed for the current event
    calls,           \* enrichment calls made by the format_message that
                     \* has just returned
    first_cached,    \* per repository, what the call that cached it returned
    repeat,          \* this cycle's page is the page of the cycle that
                     \* completed just before it
    at_fetch,        \* table pushed_events as it was when this cycle's
                     \* page was fetched
    cycle_log,       \* the calls the for loop has made in this cycle, in
                     \* the order it made them
    interrupted_now, \* a KeyboardInterrupt was raised in the current cycle,
                     \* or has ended monitor()
    last_op,         \* the last Database method called directly (SpecDb)
    probe            \* the last function applied directly, with its
                     \* arguments and result (SpecSleep, SpecSign)

vars ==
    <<config, pushed_events, repo_cache, user_cache, conn_open, pc,
      events, idx, new_events, msg, bot_idx, exc, exit_cause, summary,
      send_all_calls, attempted_now, failed_now, calls, first_cached, repeat,
      at_fetch, cycle_log, interrupted_now, last_op, probe>>

db_vars == <<pushed_events, repo_cache, user_cache>>
local_vars == <<events, idx, new_events, msg, bot_idx, attempted_now,
                failed_now, calls, repeat, at_fetch, cycle_log>>

NoEvents == [shape |-> "none", items |-> << >>]
NoMsg == [kind |-> "none"]
NoExc == [class |-> None, at |-> None, handler |-> None]
NoCalls == [avatar |-> << >>, repo |-> << >>]
NoProbe == [fn |-> None]
NoOp == [op |-> None, arg |-> None, fault |-> FALSE, existed |-> FALSE,
         raised |-> None]

\* One entry of cycle_log: a call made by the for loop (or, for "send", by
\* send_all) for the event with identifier id.
Call(fn, id, bot) == [fn |-> fn, id |-> id, bot |-> bot]

\* Variant: the page is walked from its last event to its first.
cur_event_reversed == events.items[Len(events.items) + 1 - idx]

\* The event the for loop is at.
cur_event == events.items[idx]

\* A remote reply that is a failed lookup: no response, a status other than
\* 200, or a body that is not a JSON object.
RemoteFailed(reply) ==
    reply.exc # None \/ reply.status # 200 \/ reply.shape # "object"

InitCommon ==
    /\ config \in Configs
    /\ pushed_events = {}
    /\ repo_cache = {}
    /\ user_cache = {}
    /\ conn_open = TRUE
    /\ events = NoEvents
    /\ idx = 0
    /\ new_events = 0
    /\ msg = NoMsg
    /\ bot_idx = 0
    /\ exc = NoExc
    /\ exit_cause = None
    /\ summary = -1
    /\ send_all_calls = [i \in EventIds |-> 0]
    /\ attempted_now = {}
    /\ failed_now = {}
    /\ calls = NoCalls
    /\ first_cached = [n \in RepoNames |-> << >>]
    /\ repeat = FALSE
    /\ at_fetch = {}
    /\ cycle_log = << >>
    /\ interrupted_now = FALSE
    /\ last_op = NoOp
    /\ probe = NoProbe

\* monitor() after Notifier() is built and the start is logged.
Init ==
    /\ InitCommon
    /\ pc = "fetch"

\* The locals of the loop body after control has left it: none of them is
\* read again before the next fetch assigns it.
DropLocals ==
    /\ events' = NoEvents
    /\ idx' = 0
    /\ new_events' = 0
    /\ msg' = NoMsg
    /\ bot_idx' = 0
    /\ attempted_now' = {}
    /\ failed_now' = {}
    /\ calls' = NoCalls
    /\ repeat' = FALSE
    /\ at_fetch' = {}
    /\ cycle_log' = << >>

\* An exception of class e leaves the try body of the while loop at `at`:
\* either an except clause of the loop catches it (then time.sleep(60) is
\* next), or it leaves the loop, and the finally clause closes the database.
Raise(e, at) ==
    /\ IF monitor_except(e) = "propagate"
       THEN /\ pc' = "exited"
            /\ exit_cause' = e
            /\ conn_open' = FALSE
            /\ exc' = NoExc
       ELSE /\ pc' = "backoff"
            /\ exc' = [class |-> e, at |-> at, handler |-> monitor_except(e)]
            /\ UNCHANGED <<exit_cause, conn_open>>
    /\ interrupted_now' = (e = "KeyboardInterrupt")
    /\ DropLocals
    /\ summary' = -1

\* requests.get(...).json() returns a list of events.
FetchPage ==
    /\ pc = "fetch"
    /\ \E page \in Pages :
        /\ events' = [shape |-> "list", items |-> page]
        /\ repeat' = (events.shape = "list" /\ events.items = page)
    /\ idx' = 1
    /\ new_events' = 0
    /\ at_fetch' = pushed_events
    /\ cycle_log' = << >>
    /\ pc' = "iter"
    /\ UNCHANGED <<config, db_vars, conn_open, msg, bot_idx, exc, exit_cause,
                   interrupted_now, summary, send_all_calls, attempted_now,
                   failed_now, calls, first_cached, last_op, probe>>

\* requests.get(...).json() returns a JSON object (an API error document).
FetchObject ==
    /\ pc = "fetch"
    /\ events' = [shape |-> "object", items |-> << >>]
    /\ repeat' = FALSE
    /\ idx' = 1
    /\ new_events' = 0
    /\ at_fetch' = pushed_events
    /\ cycle_log' = << >>
    /\ pc' = "iter"
    /\ UNCHANGED <<config, db_vars, conn_open, msg, bot_idx, exc, exit_cause,
                   interrupted_now, summary, send_all_calls, attempted_now,
                   failed_now, calls, first_cached, last_op, probe>>

\* requests.get raises, or .json() raises on a body that is not JSON.
FetchFails ==
    /\ pc = "fetch"
    /\ \E e \in RequestExceptionClasses \cup {"ValueError"} : Raise(e, "fetch")
    /\ UNCHANGED <<config, db_vars, send_all_calls, first_cached, last_op,
                   probe>>

\* for event in events, over the keys of a JSON object: event["id"] on a str.
IterObject ==
    /\ pc = "iter"
    /\ events.shape = "object"
    /\ Raise("TypeError", "event_id")
    /\ UNCHANGED <<config, db_vars, send_all_calls, first_cached, last_op,
                   probe>>

\* The for loop is exhausted: log the summary (then time.sleep(poll_interval)).
CycleDone ==
    /\ pc = "iter"
    /\ events.shape = "list"
    /\ idx > Len(events.items)
    /\ summary' = new_events
    /\ pc' = "sleep"
    /\ UNCHANGED <<config, db_vars, conn_open, events, at_fetch, idx,
                   new_events, msg, bot_idx, exc, exit_cause, interrupted_now,
                   send_all_calls, attempted_now, failed_now, calls,
                   first_cached, repeat, cycle_log, last_op, probe>>

\* if not notifier.db.is_pushed(event["id"]), for an event without "id".
CheckNoId ==
    /\ pc = "iter"
    /\ events.shape = "list"
    /\ idx <= Len(events.items)
    /\ "id" \notin DOMAIN cur_event
    /\ Raise("KeyError", "event_id")
    /\ UNCHANGED <<config, db_vars, send_all_calls, first_cached, last_op,
                   probe>>

\* if not notifier.db.is_pushed(event["id"]).
CheckPushed ==
    /\ pc = "iter"
    /\ events.shape = "list"
    /\ idx <= Len(events.items)
    /\ "id" \in DOMAIN cur_event
    /\ \E fault \in BOOLEAN :
        LET r == is_pushed(pushed_events, cur_event.id, fault)
        IN  IF r.raised # None
            THEN Raise(r.raised, "is_pushed")
            ELSE /\ pc' = IF r.ret THEN "iter" ELSE "format"
                 /\ idx' = IF r.ret THEN idx + 1 ELSE idx
                 /\ UNCHANGED <<exc, exit_cause, interrupted_now, conn_open,
                                summary, events, at_fetch, new_events, msg,
                                bot_idx, attempted_now, failed_now, calls,
                                repeat, cycle_log>>
    /\ UNCHANGED <<config, db_vars, send_all_calls, first_cached, last_op,
                   probe>>

\* The ghost record of what the first caching call returned, per key.
RecordFirst(first, call) ==
    IF call # << >> /\ call[1].wrote /\ first[call[1].key] = << >>
    THEN [first EXCEPT ![call[1].key] = << call[1].ret >>]
    ELSE first

\* An enrichment call of format_message together with whether the remote
\* reply offered to it was a failed lookup.
Observed(call, reply) ==
    IF call = << >> THEN << >>
    ELSE << [key |-> call[1].key, requested |-> call[1].requested,
             wrote |-> call[1].wrote, ret |-> call[1].ret,
             remote_failed |-> RemoteFailed(reply)] >>

\* msg = notifier.format_message(event), and send_all(msg) is entered.
Format ==
    /\ pc = "format"
    /\ \E avatarReply \in AvatarReplies, repoReply \in RepoReplies, t \in Times :
        LET r == format_message(cur_event, user_cache, repo_cache,
                                avatarReply, repoReply, t)
        IN  /\ msg' = r.msg
            /\ user_cache' = r.user_cache
            /\ repo_cache' = r.repo_cache
            /\ calls' = [avatar |-> Observed(r.avatar_call, avatarReply),
                         repo |-> Observed(r.repo_call, repoReply)]
            /\ first_cached' = RecordFirst(first_cached, r.repo_call)
    /\ send_all_calls' =
          [send_all_calls EXCEPT
              ![cur_event.id] = IF @ < SendCap THEN @ + 1 ELSE @]
    /\ attempted_now' = {}
    /\ failed_now' = {}
    /\ bot_idx' = 1
    /\ cycle_log' = Append(cycle_log, Call("format_message", cur_event.id, << >>))
    /\ pc' = IF send_all(config) = << >> THEN "mark" ELSE "send"
    /\ UNCHANGED <<config, pushed_events, conn_open, events, at_fetch, idx,
                   new_events, exc, exit_cause, interrupted_now, summary,
                   repeat, last_op, probe>>

\* One iteration of a for loop of send_all: the send to one bot.
SendBot ==
    /\ pc = "send"
    /\ bot_idx <= Len(send_all(config))
    /\ \E outcome \in Outcomes :
        LET bot == send_all(config)[bot_idx]
            r == send_bot(msg, bot, outcome)
        IN  IF r.raised # None
            THEN Raise(r.raised, "send_all")
            ELSE /\ attempted_now' = attempted_now \cup {bot.name}
                 /\ failed_now' = IF outcome = "ok" THEN failed_now
                                  ELSE failed_now \cup {bot.name}
                 /\ bot_idx' = bot_idx + 1
                 /\ pc' = IF bot_idx = Len(send_all(config))
                          THEN "mark" ELSE "send"
                 /\ calls' = NoCalls
                 /\ cycle_log' = Append(cycle_log,
                                        Call("send", cur_event.id, bot.name))
                 /\ interrupted_now' =
                       (interrupted_now \/ r.swallowed # None)
                 /\ UNCHANGED <<exc, exit_cause, conn_open, summary, events,
                                at_fetch, idx, new_events, msg, repeat>>
    /\ UNCHANGED <<config, db_vars, send_all_calls, first_cached, last_op,
                   probe>>

\* notifier.db.mark_pushed(event["id"]); new_events += 1.
Mark ==
    /\ pc = "mark"
    /\ \E fault \in BOOLEAN, t \in Times :
        LET r == mark_pushed(pushed_events, cur_event.id, t, fault)
        IN  IF r.raised # None
            THEN /\ Raise(r.raised, "mark_pushed")
                 /\ UNCHANGED pushed_events
            ELSE /\ pushed_events' = r.rows
                 /\ new_events' = new_events + 1
                 /\ pc' = "delay"
                 /\ calls' = NoCalls
                 /\ cycle_log' = Append(cycle_log,
                                        Call("mark_pushed", cur_event.id, << >>))
                 /\ UNCHANGED <<exc, exit_cause, interrupted_now, conn_open,
                                summary, events, at_fetch, idx, msg, bot_idx,
                                attempted_now, failed_now, repeat>>
    /\ UNCHANGED <<config, repo_cache, user_cache, send_all_calls,
                   first_cached, last_op, probe>>

\* time.sleep(0.5), then the for loop moves to the next event.
Delay ==
    /\ pc = "delay"
    /\ idx' = idx + 1
    /\ pc' = "iter"
    /\ msg' = NoMsg
    /\ calls' = NoCalls
    /\ attempted_now' = {}
    /\ failed_now' = {}
    /\ bot_idx' = 0
    /\ cycle_log' = Append(cycle_log, Call("sleep", cur_event.id, << >>))
    /\ UNCHANGED <<config, db_vars, conn_open, events, at_fetch, new_events,
                   exc, exit_cause, interrupted_now, summary, send_all_calls, first_cached,
                   repeat, last_op, probe>>

\* time.sleep(config["github"]["poll_interval"]) ends; the while loop goes on.
Sleep ==
    /\ pc = "sleep"
    /\ pc' = "fetch"
    /\ summary' = -1
    /\ idx' = 0
    /\ new_events' = 0
    /\ at_fetch' = {}
    /\ cycle_log' = << >>
    /\ interrupted_now' = FALSE
    /\ UNCHANGED <<config, db_vars, conn_open, events, msg, bot_idx, exc,
                   exit_cause, send_all_calls, attempted_now,
                   failed_now, calls, first_cached, repeat, last_op, probe>>

\* time.sleep(60) of an except clause ends; the while loop goes on.
Backoff ==
    /\ pc = "backoff"
    /\ pc' = "fetch"
    /\ exc' = NoExc
    /\ UNCHANGED <<config, db_vars, conn_open, local_vars, exit_cause,
                   interrupted_now, summary, send_all_calls, first_cached,
                   last_op, probe>>

\* KeyboardInterrupt arrives while the loop is anywhere.
Interrupt ==
    /\ pc \in {"fetch", "iter", "format", "send", "mark", "delay", "sleep",
               "backoff"}
    /\ Raise("KeyboardInterrupt", pc)
    /\ UNCHANGED <<config, db_vars, send_all_calls, first_cached, last_op,
                   probe>>

Next ==
    \/ FetchPage
    \/ FetchObject
    \/ FetchFails
    \/ IterObject
    \/ CycleDone
    \/ CheckNoId
    \/ CheckPushed
    \/ Format
    \/ SendBot
    \/ Mark
    \/ Delay
    \/ Sleep
    \/ Backoff
    \/ Interrupt

Spec == Init /\ [][Next]_vars

\* time.sleep(60) returns: the backoff sleep of an except clause ends.
FairSpec == Spec /\ WF_vars(Backoff)

\* ------------------------------------------------- Database, called directly
\* The methods of Database applied in any order to any arguments, as a test
\* of the class would apply them.
InitDb ==
    /\ InitCommon
    /\ pc = "db"

DbOp(op, arg, fault, existed, raised) ==
    [op |-> op, arg |-> arg, fault |-> fault, existed |-> existed,
     raised |-> raised]

DbIsPushed ==
    /\ pc = "db"
    /\ \E id \in EventIds, fault \in BOOLEAN :
        LET r == is_pushed(pushed_events, id, fault)
        IN  last_op' = DbOp("is_pushed", id, fault, r.ret, r.raised)
    /\ UNCHANGED <<config, db_vars, conn_open, pc, local_vars, exc, exit_cause,
                   interrupted_now, summary, send_all_calls, first_cached,
                   probe>>

DbMarkPushed ==
    /\ pc = "db"
    /\ \E id \in EventIds, t \in Times, fault \in BOOLEAN :
        LET r == mark_pushed(pushed_events, id, t, fault)
        IN  /\ pushed_events' = r.rows
            /\ last_op' = DbOp("mark_pushed", id, fault,
                               \E row \in pushed_events : row.event_id = id,
                               r.raised)
    /\ UNCHANGED <<config, repo_cache, user_cache, conn_open, pc, local_vars,
                   exc, exit_cause, interrupted_now, summary, send_all_calls,
                   first_cached, probe>>

DbCacheRepoInfo ==
    /\ pc = "db"
    /\ \E name \in RepoNames, reply \in RepoReplies, t \in Times :
        /\ reply.shape = "object"
        /\ repo_cache' = cache_repo_info(repo_cache, name, reply.body, t)
        /\ last_op' = DbOp("cache_repo_info", name, FALSE,
                           get_repo_info(repo_cache, name) # << >>, None)
    /\ UNCHANGED <<config, pushed_events, user_cache, conn_open, pc,
                   local_vars, exc, exit_cause, interrupted_now, summary,
                   send_all_calls, first_cached, probe>>

DbCacheUserAvatar ==
    /\ pc = "db"
    /\ \E login \in Logins, reply \in AvatarReplies, t \in Times :
        /\ reply.shape = "object"
        /\ user_cache' = cache_user_avatar(user_cache, login,
                                           Get(reply.body, "avatar_url", ""), t)
        /\ last_op' = DbOp("cache_user_avatar", login, FALSE,
                           \E row \in user_cache : row.login = login, None)
    /\ UNCHANGED <<config, pushed_events, repo_cache, conn_open, pc,
                   local_vars, exc, exit_cause, interrupted_now, summary,
                   send_all_calls, first_cached, probe>>

NextDb ==
    \/ DbIsPushed
    \/ DbMarkPushed
    \/ DbCacheRepoInfo
    \/ DbCacheUserAvatar

SpecDb == InitDb /\ [][NextDb]_vars

\* ------------------------------------------------ the two sleeps of the loop
\* The argument of time.sleep after the summary of a completed cycle.
poll_sleep(poll_interval) == poll_interval

\* The argument of time.sleep in both except clauses of the loop.
BackoffSeconds == 60

\* The loop reduced to its sleeps: the configuration is loaded, then cycles
\* complete or fail in any order; probe holds the configured interval and
\* the length of the last sleep of each kind (0: none yet).
PollIntervals == 1..MaxPoll

InitSleep ==
    /\ InitCommon
    /\ pc = "load_config"

LoadConfig ==
    /\ pc = "load_config"
    /\ \E p \in PollIntervals :
          probe' = [fn |-> "time.sleep", poll_interval |-> p,
                    normal |-> 0, backoff |-> 0]
    /\ pc' = "cycle"
    /\ UNCHANGED <<config, db_vars, conn_open, local_vars, exc, exit_cause,
                   interrupted_now, summary, send_all_calls, first_cached,
                   last_op>>

CycleSleeps ==
    /\ pc = "cycle"
    /\ probe' = [probe EXCEPT !.normal = poll_sleep(probe.poll_interval)]
    /\ UNCHANGED <<config, db_vars, conn_open, pc, local_vars, exc,
                   exit_cause, interrupted_now, summary, send_all_calls,
                   first_cached, last_op>>

CycleBacksOff ==
    /\ pc = "cycle"
    /\ probe' = [probe EXCEPT !.backoff = BackoffSeconds]
    /\ UNCHANGED <<config, db_vars, conn_open, pc, local_vars, exc,
                   exit_cause, interrupted_now, summary, send_all_calls,
                   first_cached, last_op>>

NextSleep ==
    \/ LoadConfig
    \/ CycleSleeps
    \/ CycleBacksOff

SpecSleep == InitSleep /\ [][NextSleep]_vars

\* ------------------------------------------- signing of the feishu webhook
\* A URL is what urlparse makes of it: the part before the query (scheme,
\* netloc, path), the query and the fragment.  A query string is the list of
\* its "&"-separated fields; a field has a key, says whether it has an "=",
\* and has the raw (percent-encoded) text after the "=".
Field(key, eq, value) == [key |-> key, eq |-> eq, value |-> value]

QueryKeys == {"access_token", "sign"}
RawValues == {"", "1", "x+y", "x%20y"}

QueryFields ==
    {Field(k, TRUE, v) : k \in QueryKeys, v \in RawValues} \cup
    {Field(k, FALSE, "") : k \in QueryKeys}

WebhookUrls ==
    {[base |-> "https://open.feishu.cn/open-apis/bot/v2/hook/h1",
      query |-> q, fragment |-> ""] :
        q \in UNION {[1..n -> QueryFields] : n \in 0..MaxQuery}}

\* bot_config.get("secret"): absent or empty, or a secret.
Secrets == {None, "", "s1"}

\* str(int(time.time())).
Timestamps == {"1700000000", "1700000001"}

\* urllib.parse.unquote_plus on the raw texts of the model.
unquote_plus(raw) ==
    CASE raw = "x+y"        -> "x y"
      [] raw = "x%20y"      -> "x y"
      [] raw = "c2ln%2B%3D" -> "c2ln+="
      [] raw = "dGFn%2B%3D" -> "dGFn+="
      [] OTHER              -> raw

\* urllib.parse.quote_plus on the texts of the model.
quote_plus(text) ==
    CASE text = "x y"    -> "x+y"
      [] text = "c2ln+=" -> "c2ln%2B%3D"
      [] text = "dGFn+=" -> "dGFn%2B%3D"
      [] OTHER           -> text

\* Notifier._generate_feishu_sign: the base64 text of an HMAC-SHA256 digest;
\* a text per (secret, timestamp) stands for it.
_generate_feishu_sign(secret, timestamp) ==
    IF timestamp = "1700000000" THEN "c2ln+=" ELSE "dGFn+="

\* A dict of lists in insertion order: a sequence of [key, values].
dict_append(d, key, value) ==
    IF \E i \in DOMAIN d : d[i].key = key
    THEN [i \in DOMAIN d |->
            IF d[i].key = key
            THEN [d[i] EXCEPT !.values = Append(@, value)] ELSE d[i]]
    ELSE Append(d, [key |-> key, values |-> << value >>])

\* dict.update for one key: an existing key keeps its place.
dict_update(d, key, values) ==
    IF \E i \in DOMAIN d : d[i].key = key
    THEN [i \in DOMAIN d |->
            IF d[i].key = key THEN [d[i] EXCEPT !.values = values] ELSE d[i]]
    ELSE Append(d, [key |-> key, values |-> values])

\* urllib.parse.parse_qs with its defaults (keep_blank_values=False): a field
\* without "=" or with nothing after it is left out.
RECURSIVE parse_qs(_)
parse_qs(fields) ==
    IF fields = << >> THEN << >>
    ELSE LET f == fields[Len(fields)]
             d == parse_qs(SubSeq(fields, 1, Len(fields) - 1))
         IN  IF ~f.eq \/ f.value = "" THEN d
             ELSE dict_append(d, f.key, unquote_plus(f.value))

\* urllib.parse.urlencode(query, doseq=True).
RECURSIVE urlencode(_)
urlencode(d) ==
    IF d = << >> THEN << >>
    ELSE [j \in 1..Len(d[1].values) |->
             Field(quote_plus(d[1].key), TRUE, quote_plus(d[1].values[j]))]
         \o urlencode(Tail(d))

\* The URL _send_feishu posts to (lines 274, 297-312).
feishu_request_url(webhook_url, secret, timestamp) ==
    IF Truthy(secret)
    THEN LET sign == _generate_feishu_sign(secret, timestamp)
             query == dict_update(
                          dict_update(parse_qs(webhook_url.query),
                                      "timestamp", << timestamp >>),
                          "sign", << sign >>)
         IN  [webhook_url EXCEPT !.query = urlencode(query)]
    ELSE webhook_url

InitSign ==
    /\ InitCommon
    /\ pc = "sign"

\* _send_feishu builds the request URL for a bot.
BuildFeishuUrl ==
    /\ pc = "sign"
    /\ probe = NoProbe
    /\ \E w \in WebhookUrls, secret \in Secrets, t \in Timestamps :
          probe' = [fn |-> "_send_feishu", webhook |-> w, secret |-> secret,
                    timestamp |-> t,
                    url |-> feishu_request_url(w, secret, t)]
    /\ UNCHANGED <<config, db_vars, conn_open, pc, local_vars, exc,
                   exit_cause, interrupted_now, summary, send_all_calls,
                   first_cached, last_op>>

NextSign ==
    BuildFeishuUrl

SpecSign == InitSign /\ [][NextSign]_vars

\* ------------------------------------------------------------- properties
\* The names of the bots of the enabled notification types.
EnabledBots(cfg) ==
    (IF cfg.dingtalk.enable
     THEN {cfg.dingtalk.bots[i].name : i \in DOMAIN cfg.dingtalk.bots} ELSE {})
    \cup
    (IF cfg.feishu.enable
     THEN {cfg.feishu.bots[i].name : i \in DOMAIN cfg.feishu.bots} ELSE {})

\* The marker rows of one event identifier.
Markers(id) == {r \in pushed_events : r.event_id = id}

\* C1: across all poll cycles of one process lifetime, cycles that abort and
\* enter backoff included, send_all hands an event identifier to the enabled
\* bots at most once.
C1_DispatchedAtMostOnce ==
    EnabledBots(config) # {} => \A id \in EventIds : send_all_calls[id] <= 1

\* C2: a mark_pushed call (the storage engine itself working) leaves exactly
\* one marker for its identifier and reports no error; when the identifier
\* was already marked the table is left exactly as it was.
C2_MarkPushedIdempotent ==
    [][(last_op'.op = "mark_pushed" /\ ~last_op'.fault) =>
          /\ last_op'.raised = None
          /\ Cardinality({r \in pushed_events' :
                             r.event_id = last_op'.arg}) = 1
          /\ (Markers(last_op'.arg) # {} => pushed_events' = pushed_events)
      ]_vars

\* C2 witness: mark_pushed was called for an identifier that already had its
\* marker, and returned.
C2_Witness ==
    /\ last_op.op = "mark_pushed"
    /\ last_op.existed
    /\ ~last_op.fault
    /\ last_op.raised = None

\* C3: in a cycle over the same page as the cycle completed just before it,
\* no event is formatted, dispatched or marked, no marker row is added, and
\* the cycle summary reports 0 new events.
C3_SecondPassNoDispatch ==
    [][repeat' =>
          /\ pc' \notin {"format", "send", "mark", "delay"}
          /\ pushed_events' = pushed_events
          /\ send_all_calls' = send_all_calls
          /\ (pc' = "sleep" => summary' = 0)
      ]_vars

\* C3 witness: a second pass over a page whose event was dispatched by the
\* pass before has completed.
C3_Witness ==
    /\ repeat
    /\ pc = "sleep"
    /\ Len(events.items) > 0
    /\ send_all_calls[events.items[1].id] = 1

\* C4: a send never takes the loop into its except clauses, whatever the
\* webhook does; when send_all has returned every enabled bot has had its
\* send, failed ones or not; and when mark_pushed has then returned the
\* event has exactly one marker.
C4_ChannelIsolation ==
    /\ [][pc = "send" => pc' \in {"send", "mark", "exited"}]_vars
    /\ [](pc = "mark" => attempted_now = EnabledBots(config))
    /\ [](pc = "delay" =>
            /\ attempted_now = EnabledBots(config)
            /\ Cardinality(Markers(cur_event.id)) = 1)

\* C4 witness: the send to the first bot failed, the second bot got its send
\* all the same, and the event has been marked.
C4_Witness ==
    /\ pc = "delay"
    /\ Len(send_all(config)) >= 2
    /\ send_all(config)[1].name \in failed_now
    /\ send_all(config)[2].name \in attempted_now
    /\ Markers(cur_event.id) # {}

\* C5: the table of markers changes only by the loop's mark_pushed step, for
\* the event being processed, and only when every enabled bot has had its
\* send attempt for that event.
C5_MarkAfterAllAttempts ==
    [][pushed_events' # pushed_events =>
          /\ pc = "mark"
          /\ EnabledBots(config) \subseteq attempted_now
          /\ \A r \in pushed_events' \ pushed_events :
                r.event_id = cur_event.id
      ]_vars

\* C5 witness: an event has been marked after sends of which one failed.
C5_Witness ==
    /\ pc = "delay"
    /\ Markers(cur_event.id) # {}
    /\ failed_now # {}
    /\ attempted_now = EnabledBots(config)

\* C6: monitor() ends only by KeyboardInterrupt; every other exception of a
\* cycle is held by an except clause of the loop, which sleeps and then goes
\* back to the fetch (unless the interrupt arrives during the sleep).
C6_LoopNeverExits ==
    /\ [](pc = "exited" => exit_cause = "KeyboardInterrupt")
    /\ [](exc # NoExc => pc = "backoff" /\ exc.handler \in {"network", "other"})
    /\ [][pc = "backoff" => pc' \in {"fetch", "exited"}]_vars
    /\ [][(pc \notin {"backoff", "exited"} /\ pc' = "backoff") => exc' # NoExc]_vars
    /\ (pc = "backoff") ~> (pc \in {"fetch", "exited"})

\* C6 witness: an exception raised inside the for loop is held by the loop,
\* which is in its backoff sleep.
C6_Witness ==
    /\ pc = "backoff"
    /\ exc.at = "event_id"

\* C7 as claimed: once is_pushed has raised a storage error the process has
\* stopped.
C7_StorageErrorIsFatal ==
    exc.at = "is_pushed" => pc = "exited"

\* C7, amended: a storage error raised by is_pushed is caught by the loop's
\* general except clause; the event is neither dispatched nor marked, the
\* connection stays open and the loop goes to its backoff sleep.  No storage
\* error ever ends monitor().
C7_StorageErrorBacksOff ==
    /\ [][exc'.at = "is_pushed" /\ exc.at # "is_pushed" =>
            /\ pc = "iter"
            /\ pc' = "backoff"
            /\ exc'.class = "sqlite3.OperationalError"
            /\ exc'.handler = "other"
            /\ conn_open'
            /\ send_all_calls' = send_all_calls
            /\ pushed_events' = pushed_events
        ]_vars
    /\ [](exit_cause # "sqlite3.OperationalError")

\* C7 witness: the loop is in backoff after is_pushed raised.
C7_Witness ==
    /\ pc = "backoff"
    /\ exc.at = "is_pushed"
    /\ conn_open

\* C8: a _get_repo_details call for a repository that has a row in
\* repo_cache issues no request, leaves the table alone and returns what the
\* call that cached the repository returned.
C8_RepoCacheNoRefetch ==
    [][(pc = "format" /\ calls'.repo # << >>
        /\ \E r \in repo_cache : r.name = calls'.repo[1].key) =>
          /\ ~calls'.repo[1].requested
          /\ first_cached[calls'.repo[1].key] = << calls'.repo[1].ret >>
          /\ repo_cache' = repo_cache
      ]_vars

\* C8 witness: a call was answered from the cache.
C8_Witness ==
    /\ calls.repo # << >>
    /\ ~calls.repo[1].requested
    /\ first_cached[calls.repo[1].key] # << >>

\* C9: a _get_user_avatar call for a login that has a row in user_cache,
\* whatever its avatar_url, issues no request and returns the cached value.
C9_AvatarCacheNoRefetch ==
    [][(pc = "format" /\ calls'.avatar # << >>
        /\ \E r \in user_cache : r.login = calls'.avatar[1].key) =>
          /\ ~calls'.avatar[1].requested
          /\ \E r \in user_cache :
                /\ r.login = calls'.avatar[1].key
                /\ r.avatar_url = calls'.avatar[1].ret
      ]_vars

\* C10: when the repository has no cached row and the remote lookup fails,
\* _get_repo_details returns the default dict and caches nothing, the message
\* is built with those defaults, the loop goes on to send_all, and once
\* mark_pushed has returned every enabled bot has had its send and the event
\* has its marker.
C10_DegradedEnrichment ==
    /\ [][(pc = "format" /\ calls'.repo # << >>
           /\ calls'.repo[1].remote_failed
           /\ ~ \E r \in repo_cache : r.name = calls'.repo[1].key) =>
             /\ calls'.repo[1].ret =
                   [description |-> "zan wu miao shu", language |-> "",
                    stargazers_count |-> 0]
             /\ pc' \in {"send", "mark"}
             /\ msg'.kind = "normal"
             /\ msg'.description = "zan wu miao shu"
             /\ msg'.language = ""
             /\ msg'.stars = 0
         ]_vars
    /\ [](pc = "delay" /\ msg.kind = "normal"
          /\ msg.description = "zan wu miao shu" =>
             /\ attempted_now = EnabledBots(config)
             /\ Markers(cur_event.id) # {})

\* C10 witness: an event whose repository lookup failed has been sent to two
\* bots and marked.
C10_Witness ==
    /\ pc = "delay"
    /\ msg.kind = "normal"
    /\ msg.description = "zan wu miao shu"
    /\ Cardinality(attempted_now) >= 2
    /\ Markers(cur_event.id) # {}

\* C11: format_message never takes the loop to an except clause: it returns
\* a document, and for an event on which assembly fails (a required field
\* such as created_at missing, or an avatar that is None) that document is
\* the fallback with the text of the error; the loop goes on to send_all
\* with it, and once mark_pushed has returned every enabled bot has had its
\* send of the fallback and the event has its marker.
C11_FormatterFallback ==
    /\ [][pc = "format" =>
            /\ pc' \in {"send", "mark", "exited"}
            /\ (pc' # "exited" =>
                  /\ msg'.kind \in {"normal", "fallback"}
                  /\ (msg'.kind = "normal" <=>
                        /\ {"type", "actor", "repo", "created_at"}
                              \subseteq DOMAIN cur_event
                        /\ calls'.avatar[1].ret # None
                        /\ (cur_event.type = "ReleaseEvent" =>
                              "release" \in DOMAIN cur_event))
                  /\ (msg'.kind = "fallback" =>
                        msg'.error = IF calls'.avatar[1].ret = None
                                     THEN "TypeError" ELSE "KeyError"))
        ]_vars
    /\ [](pc = "delay" /\ msg.kind = "fallback" =>
            /\ attempted_now = EnabledBots(config)
            /\ \A b \in EnabledBots(config) :
                  \E i \in DOMAIN cycle_log :
                     cycle_log[i] = Call("send", cur_event.id, b)
            /\ Markers(cur_event.id) # {})

\* C11 witness: for an event without created_at the fallback that carries
\* the KeyError went to an enabled bot and the event has been marked.
C11_Witness ==
    /\ pc = "delay"
    /\ "created_at" \notin DOMAIN cur_event
    /\ msg = [kind |-> "fallback", error |-> "KeyError"]
    /\ attempted_now # {}
    /\ Markers(cur_event.id) # {}

\* The positions of this cycle's page whose event had no marker when the
\* page was fetched.
UnseenAtFetch ==
    {i \in DOMAIN events.items :
        /\ "id" \in DOMAIN events.items[i]
        /\ ~ \E r \in at_fetch : r.event_id = events.items[i].id}

\* The names of all configured bots, of enabled types or not.
AllBots(cfg) ==
    {cfg.dingtalk.bots[i].name : i \in DOMAIN cfg.dingtalk.bots} \cup
    {cfg.feishu.bots[i].name : i \in DOMAIN cfg.feishu.bots}

\* The positions of cycle_log that hold the call c.
CallsOf(c) == {k \in DOMAIN cycle_log : cycle_log[k] = c}

\* C12: when a cycle over a page logs its summary, the number of
\* format_message calls of the cycle, the number of marker rows added since
\* the fetch and the count in the summary all equal the number of events of
\* the page that had no marker at the fetch; each of those events has had
\* exactly one send per bot of an enabled type, and there was no other send.
C12_CycleCounts ==
    pc = "sleep" =>
      /\ summary = Cardinality(UnseenAtFetch)
      /\ Cardinality({k \in DOMAIN cycle_log :
                         cycle_log[k].fn = "format_message"})
            = Cardinality(UnseenAtFetch)
      /\ Cardinality(pushed_events \ at_fetch) = Cardinality(UnseenAtFetch)
      /\ \A i \in DOMAIN events.items : \A b \in AllBots(config) :
            Cardinality(CallsOf(Call("send", events.items[i].id, b)))
              = IF i \in UnseenAtFetch /\ b \in EnabledBots(config)
                THEN 1 ELSE 0

\* C12 witness: a cycle over a page of two events, one marked before the
\* fetch and one not, with a bot enabled, has logged "1 new event".
C12_Witness ==
    /\ pc = "sleep"
    /\ Len(events.items) = 2
    /\ Cardinality(UnseenAtFetch) = 1
    /\ summary = 1
    /\ EnabledBots(config) # {}
    /\ EnabledBots(config) # AllBots(config)

\* The for loop stands before data of unexpected shape: the response is not
\* a list of events, or the next event has no identifier.
MalformedNext ==
    \/ events.shape # "list"
    \/ /\ idx <= Len(events.items)
       /\ "id" \notin DOMAIN cur_event

\* C13: data of unexpected shape (a response that is not a list of events,
\* an event without an identifier) never takes the loop to an except clause
\* and its backoff sleep: the for loop goes on with the page.
C13_MalformedNeverEscapes ==
    [][(pc = "iter" /\ MalformedNext) => pc' \in {"iter", "sleep", "exited"}
      ]_vars

\* C14: once a KeyboardInterrupt has been raised, wherever the loop stood,
\* no step takes the loop to a new fetch, and when monitor() has ended the
\* database connection is closed.
C14_ShutdownOnInterrupt ==
    /\ [][interrupted_now => pc' # "fetch"]_vars
    /\ [](pc = "exited" => ~conn_open)

\* The calls the for loop body makes for one unseen event, in order: the
\* formatter, one send per bot in send_all's order, the marker, the delay.
EventCalls(id) ==
    << Call("format_message", id, << >>) >> \o
    [k \in 1..Len(send_all(config)) |->
        Call("send", id, send_all(config)[k].name)] \o
    << Call("mark_pushed", id, << >>), Call("sleep", id, << >>) >>

\* The calls of a cycle that has gone through the first n events of its
\* page: those of each event unseen at the fetch, in page order.
RECURSIVE ExpectedLog(_)
ExpectedLog(n) ==
    IF n = 0 THEN << >>
    ELSE ExpectedLog(n - 1) \o
         (IF n \in UnseenAtFetch THEN EventCalls(events.items[n].id)
          ELSE << >>)

\* C16: at every point of a cycle the calls made so far are, for the events
\* of the page unseen at the fetch and in page order, format_message, then
\* the sends to all bots, then mark_pushed, then the delay, all of one event
\* before the first of the next; a step that counts a new event goes to the
\* delay, and the delay to the next event.
C16_PageOrder ==
    /\ [](pc \in {"iter", "format", "sleep"} /\ events.shape = "list" =>
            cycle_log = ExpectedLog(idx - 1))
    /\ [](pc \in {"send", "mark", "delay"} =>
            /\ idx \in UnseenAtFetch
            /\ cycle_log =
                  SubSeq(ExpectedLog(idx), 1,
                         Len(ExpectedLog(idx - 1)) +
                           (CASE pc = "send" -> bot_idx
                              [] pc = "mark" -> 1 + Len(send_all(config))
                              [] pc = "delay" -> 2 + Len(send_all(config)))))
    /\ [][new_events' = new_events + 1 => pc' = "delay"]_vars
    /\ [][pc = "delay" => \/ pc' = "iter" /\ idx' = idx + 1
                          \/ pc' = "exited"]_vars

\* C16 witness: a cycle over a page of two unseen events with two bots has
\* completed: ten calls in all.
C16_Witness ==
    /\ pc = "sleep"
    /\ Cardinality(UnseenAtFetch) = 2
    /\ Len(send_all(config)) >= 2
    /\ Len(cycle_log) = 2 * (3 + Len(send_all(config)))

\* C17: whatever poll interval is configured, once the loop has taken a
\* sleep of each kind, the backoff sleep was strictly longer than the sleep
\* after a completed cycle.
C17_BackoffLonger ==
    (pc = "cycle" /\ probe.normal > 0 /\ probe.backoff > 0) =>
        probe.backoff > probe.normal

\* C18: a _get_repo_details call that got an HTTP 200 reply with a JSON
\* object returns a description and a language that are text (the reply's,
\* or the empty text for a field the reply lacks) and a star count that is
\* a number (the reply's or 0), and the row it caches holds what it
\* returned.
C18_RepoDetailsParsed ==
    [][(pc = "format" /\ calls'.repo # << >> /\ calls'.repo[1].wrote) =>
          LET ret == calls'.repo[1].ret
              row == CHOOSE r \in repo_cache' : r.name = calls'.repo[1].key
          IN  /\ ret.description # None
              /\ ret.language # None
              /\ ret.stargazers_count \in Nat
              /\ row.description = ret.description
              /\ row.language = ret.language
              /\ row.stars = ret.stargazers_count
      ]_vars

\* What a query string says about one key: the decoded values of the fields
\* with that key, in order; a field with nothing after its key has the empty
\* value.
ParamValues(fields, key) ==
    LET sel == SelectSeq(fields, LAMBDA f : f.key = key)
    IN  [i \in DOMAIN sel |-> unquote_plus(sel[i].value)]

\* C19: with a secret configured, the query string of the URL _send_feishu
\* posts to has one timestamp and one sign parameter (the computed ones),
\* every other parameter of the webhook URL has the values it had there and
\* there is no further parameter; the rest of the URL is the webhook URL's.
C19_QueryParamsPreserved ==
    (probe.fn = "_send_feishu" /\ Truthy(probe.secret)) =>
      /\ ParamValues(probe.url.query, "timestamp") = << probe.timestamp >>
      /\ ParamValues(probe.url.query, "sign") =
            << _generate_feishu_sign(probe.secret, probe.timestamp) >>
      /\ \A k \in QueryKeys \ {"timestamp", "sign"} :
            ParamValues(probe.url.query, k)
              = ParamValues(probe.webhook.query, k)
      /\ probe.url.base = probe.webhook.base
      /\ probe.url.fragment = probe.webhook.fragment

\* C20: an enrichment call whose remote lookup fails returns the failure
\* default (the default dict, the placeholder avatar) and leaves its cache
\* table as it was; no cache row ever holds a failure default; and a call
\* for a key that has no row issues the remote lookup (again).
C20_FailureNotCached ==
    /\ [][(pc = "format" /\ calls'.repo # << >>
           /\ calls'.repo[1].requested /\ calls'.repo[1].remote_failed) =>
             /\ calls'.repo[1].ret =
                   [description |-> "zan wu miao shu", language |-> "",
                    stargazers_count |-> 0]
             /\ repo_cache' = repo_cache
         ]_vars
    /\ [][(pc = "format" /\ calls'.avatar # << >>
           /\ calls'.avatar[1].requested /\ calls'.avatar[1].remote_failed) =>
             /\ calls'.avatar[1].ret = "https://github.com/identicons/app.png"
             /\ user_cache' = user_cache
         ]_vars
    /\ [](\A r \in repo_cache : r.description # "zan wu miao shu")
    /\ [](\A r \in user_cache :
            r.avatar_url # "https://github.com/identicons/app.png")
    /\ [][(pc = "format" /\ calls'.repo # << >>
           /\ ~ \E r \in repo_cache : r.name = calls'.repo[1].key) =>
             calls'.repo[1].requested
         ]_vars
    /\ [][(pc = "format" /\ calls'.avatar # << >>
           /\ ~ \E r \in user_cache : r.login = calls'.avatar[1].key) =>
             calls'.avatar[1].requested
         ]_vars

\* C20 witness: the second event of a page has been formatted after the
\* first; its avatar lookup was issued and failed, and both its enrichment
\* calls returned their failure defaults with both caches still empty: the
\* failed lookup for the first event, of the same actor, cached nothing.
C20_Witness ==
    /\ pc \in {"send", "mark"}
    /\ idx = 2
    /\ new_events = 1
    /\ calls.avatar # << >> /\ calls.repo # << >>
    /\ calls.avatar[1].requested /\ calls.avatar[1].remote_failed
    /\ calls.avatar[1].ret = "https://github.com/identicons/app.png"
    /\ calls.repo[1].requested /\ calls.repo[1].remote_failed
    /\ user_cache = {}
    /\ repo_cache = {}

=============================================================================
